---- MODULE Spec2Model ----
(***************************************************************************)
(* Verification model of the watsonx.ai inference path of the risk         *)
(* assessment application.                                                 *)
(*                                                                         *)
(* The backend service is modelled from its listing in                     *)
(* docs/WATSONX_INTEGRATION.md (watsonx_service.py, token_tracker.py, the  *)
(* POST /explain route and the response cache helpers); the caller is the  *)
(* TypeScript API client (explainCase).                                    *)
(*                                                                         *)
(* Scaling.  Money is counted in the cost of one token, so that            *)
(* get_spent_usd is tokens_used and budget_usd is a number of tokens.      *)
(* Text lengths are counted in symbols of a small alphabet, risk scores in *)
(* hundredths, time in cache ticks.                                        *)
(***************************************************************************)
EXTENDS Integers, Sequences, FiniteSets, TLC

(* ------------------------------ bounds --------------------------------- *)

\* the budget handed to TokenTracker(budget_usd=...), in token costs
MaxBudget == 3
\* number of POST /explain requests one behaviour serves
MaxRequests == 2
\* last instant of the cache clock
MaxTime == 3

(* --------------------------- program constants ------------------------- *)

\* GenParams.MAX_NEW_TOKENS, in symbols: the longest text generate_text returns
MaxNewTokens == 4
\* _estimate_tokens: 1 token is about 4 characters
CharsPerToken == 4
\* timedelta(hours=1), in cache ticks
CacheTTL == 2
\* _fallback_response thresholds, in hundredths
HighRiskThreshold == 80
MediumRiskThreshold == 50
\* "Retry with exponential backoff (max 3 attempts)"
MaxAttempts == 3

MODEL_ID == "ibm/granite-13b-instruct-v2"
FALLBACK_MODEL == "fallback-rule-based"

(* ------------------------------- data ---------------------------------- *)

\* rows of the Case table: risk_score in hundredths, prompt_chars the length
\* of build_risk_prompt's text for the row
Cases ==
  { [id |-> "c49", risk_score |-> 49, prompt_chars |-> 1],
    [id |-> "c50", risk_score |-> 50, prompt_chars |-> 5],
    [id |-> "c79", risk_score |-> 79, prompt_chars |-> 9],
    [id |-> "c80", risk_score |-> 80, prompt_chars |-> 5],
    [id |-> "c94", risk_score |-> 94, prompt_chars |-> 9] }

CaseIds == { c.id : c \in Cases }

\* a case_id with no row
MissingId == "none"

RequestIds == CaseIds \cup {MissingId}

\* db.query(Case).filter(Case.id == case_id).first()
CaseOf(case_id) == CHOOSE c \in Cases : c.id = case_id

Absent == "absent"


(* --------------------------- upstream texts ---------------------------- *)

\* Symbols of the text model.generate_text returns.  "F" stands for JSON
\* members holding confidence, rationale and recommended_action, "P" for
\* members holding the rationale only, "x" for prose.
Alphabet == {"{", "}", "F", "P", "x"}

RequiredFields == {"confidence", "rationale", "recommended_action"}

MemberFields(sym) == IF sym = "F" THEN RequiredFields ELSE {"rationale"}

Texts == UNION { [1..n -> Alphabet] : n \in 0..MaxNewTokens }

\* what model.generate_text does: return a text, or raise
Upstream == [kind : {"text"}, text : Texts]
              \cup [kind : {"timeout", "error5xx"}, text : {<<>>}]

\* str.find: 0-based index of the first occurrence, -1 when there is none
find(text, ch) ==
  IF \E i \in 1..Len(text) : text[i] = ch
    THEN (CHOOSE i \in 1..Len(text) :
            text[i] = ch /\ \A j \in 1..(i-1) : text[j] # ch) - 1
    ELSE -1

\* str.rfind: 0-based index of the last occurrence, -1 when there is none
rfind(text, ch) ==
  IF \E i \in 1..Len(text) : text[i] = ch
    THEN (CHOOSE i \in 1..Len(text) :
            text[i] = ch /\ \A j \in (i+1)..Len(text) : text[j] # ch) - 1
    ELSE -1

\* text[a:b] with 0 <= a < b
Slice(text, a, b) == SubSeq(text, a + 1, b)

\* json.loads on a span that starts with "{": an object, or a decode error
JsonDecodable(s) ==
  /\ Len(s) >= 2
  /\ s[1] = "{"
  /\ s[Len(s)] = "}"
  /\ \A i \in 2..(Len(s) - 1) : s[i] \in {"F", "P"}

JsonFields(s) == UNION { MemberFields(s[i]) : i \in 2..(Len(s) - 1) }

\* _parse_response: [ok |-> TRUE, fields |-> keys of the decoded object], or
\* ok = FALSE for the ValueError
parse_response(text) ==
  LET json_start == find(text, "{")
      json_end   == rfind(text, "}") + 1
  IN IF json_start # -1 /\ json_end > json_start
       THEN LET json_str == Slice(text, json_start, json_end)
            IN IF JsonDecodable(json_str)
                 THEN [ok |-> TRUE, fields |-> JsonFields(json_str)]
                 ELSE [ok |-> FALSE, fields |-> {}]
       ELSE [ok |-> FALSE, fields |-> {}]

\* _estimate_tokens: (len(prompt) + len(response)) // 4
estimate_tokens(prompt_chars, text) == (prompt_chars + Len(text)) \div CharsPerToken


(* ------------------------------ state ---------------------------------- *)

VARIABLES
  token_tracker,  \* WatsonXService.token_tracker: [tokens_used, requests_count]
  response,       \* what the last explainCase call gave its caller
  handled,        \* number of POST /explain requests served
  model_calls,    \* number of model.generate_text calls made
  granted,        \* sum of the estimates recorded for the calls let past the budget check
  upstream,       \* what generate_text did in the last request
  cache,          \* the module-level cache dict: case_id -> entry
  now,            \* datetime.now(), in ticks
  lastGet,        \* what the last cache lookup returned
  \* the Orchestrator of the design (sections 4.1, 4.2, 4.5 and 5)
  pc,             \* state of each caller's request in the request state machine
  req,            \* the key (caseId, operationKind) of each caller's request
  inflight,       \* per key: the caller that holds the in-flight lock
  spent,          \* BudgetTracker: consumed cost, reservations included
  requestCount,   \* BudgetTracker: number of committed calls
  reserved,       \* per caller: the estimate reserved on its behalf
  attempts,       \* per caller: upstream attempts made
  store,          \* ResponseCache: key -> entry
  result,         \* per caller: the result returned
  overlapped,     \* pairs of callers whose requests were in progress together
  pending,        \* explainCase: the case_id of the fetch that awaits its response
  \* the documents page and the document store behind /documents
  documents,      \* DocumentStore: the documents it holds
  chunks,         \* DocumentStore: the chunks it holds
  nextDocument,   \* DocumentStore: number of documents ingested so far
  pageDocuments,  \* DocumentsPage: the documents state
  pageError,      \* DocumentsPage: the error state
  uploadSuccess,  \* DocumentsPage: the uploadSuccess state
  uploading,      \* DocumentsPage: the uploading state
  docPc,          \* DocumentsPage: where the running handleFileChange stands
  docArg,         \* DocumentsPage: the file handleFileChange was given
  delPc,          \* DocumentsPage: where the running handleDelete stands
  delArg,         \* DocumentsPage: the document id handleDelete was given
  timers,         \* DocumentsPage: armed timeouts that clear uploadSuccess
  \* the dashboard page
  cases,          \* DashboardPage: the cases state, each case by its risk_score
  risk,           \* DashboardPage: the value of the risk level select
  dashError,      \* DashboardPage: the error state
  \* the case detail page
  pageFile,       \* which of the three versions of the page is mounted
  casePage,       \* CaseDetailPage: the useState values
  fetchPc,        \* CaseDetailPage: the request the running fetchCase awaits
  explainRuns,    \* handleExplainRisk runs that await explainCase, each with its caseData
  calculateRuns,  \* handleCalculateRisk runs that await calculateRiskScore
  analyzeRun,     \* the last handleAnalyzeRisk run and its two requests
  dropped,        \* requests of settled handleAnalyzeRisk runs still outstanding
  race,           \* how far an explain and a calculate run that overlapped have come
  \* the index of the document store (design, sections 4.6 and 5)
  roundTrip,      \* the last Ingest, the index before it, and whether Delete undid it
  building,       \* the Ingest or Delete in progress and its private copy of the index
  retrieved       \* what the last Retrieve observed and returned

orchVars == <<pc, req, inflight, spent, requestCount, reserved, attempts,
              store, result, overlapped>>

docVars == <<documents, chunks, nextDocument, pageDocuments, pageError,
             uploadSuccess, uploading, docPc, docArg, delPc, delArg,
             timers>>

dashVars == <<cases, risk, dashError>>

caseVars == <<pageFile, casePage, fetchPc, explainRuns, calculateRuns,
              analyzeRun, dropped, race>>

indexVars == <<building, retrieved>>

docPageVars == <<pageDocuments, pageError, uploadSuccess, uploading, docPc,
                 docArg, delPc, delArg, timers>>

uiVars == <<dashVars, caseVars, indexVars, roundTrip>>

vars == <<token_tracker, response, handled, model_calls, granted, upstream,
          cache, now, lastGet, orchVars, pending, docVars, uiVars>>

serviceVars == <<token_tracker, response, handled, model_calls, granted, upstream>>
cacheVars == <<cache, now, lastGet>>

(* ---------------------------- TokenTracker ----------------------------- *)

\* TokenTracker(budget_usd=250.0), in token costs
budget_usd == MaxBudget

\* TokenTracker.__init__
TokenTrackerInit == [tokens_used |-> 0, requests_count |-> 0]

\* add_usage that adds the tokens on top of an amount already booked for them
add_usage_stacked(tracker, tokens) ==
  [tokens_used    |-> tracker.tokens_used + tokens + tokens,
   requests_count |-> tracker.requests_count + 1]

\* add_usage that adds the tokens without counting the request
add_usage_uncounted(tracker, tokens) ==
  [tokens_used    |-> tracker.tokens_used + tokens,
   requests_count |-> tracker.requests_count]

\* add_usage that stores the tokens of the last call in place of the sum
add_usage_overwrite(tracker, tokens) ==
  [tokens_used    |-> tokens,
   requests_count |-> tracker.requests_count + 1]

\* TokenTracker.add_usage
add_usage(tracker, tokens) ==
  [tokens_used    |-> tracker.tokens_used + tokens,
   requests_count |-> tracker.requests_count + 1]

\* TokenTracker.get_spent_usd, with the cost of one token as the unit
get_spent_usd(tracker) == tracker.tokens_used

\* TokenTracker.get_remaining_usd
get_remaining_usd(tracker) == budget_usd - get_spent_usd(tracker)

\* is_budget_exceeded with < for <=
is_budget_exceeded_strict(tracker) == get_remaining_usd(tracker) < 0

\* TokenTracker.is_budget_exceeded
is_budget_exceeded(tracker) == get_remaining_usd(tracker) <= 0

(* --------------------------- WatsonXService ---------------------------- *)

\* the value the decoded object holds under a key it has
ModelConfidence == 89
NoConfidence == -1

NoBody ==
  [case_id |-> Absent, keys |-> {}, confidence |-> NoConfidence,
   rationale |-> Absent, recommended_action |-> Absent,
   model_used |-> Absent, tokens_consumed |-> 0]

\* a fallback dict that keeps a confidence
FallbackDict_confident(case_id, rationale, action) ==
  [case_id |-> case_id,
   keys |-> RequiredFields \cup {"case_id", "model_used", "tokens_consumed"},
   confidence |-> MediumRiskThreshold,
   rationale |-> rationale,
   recommended_action |-> action,
   model_used |-> FALLBACK_MODEL,
   tokens_consumed |-> 0]

\* the three dicts of _fallback_response
FallbackDict(case_id, rationale, action) ==
  [case_id |-> case_id,
   keys |-> RequiredFields \cup {"case_id", "model_used", "tokens_consumed"},
   confidence |-> 0,
   rationale |-> rationale,
   recommended_action |-> action,
   model_used |-> FALLBACK_MODEL,
   tokens_consumed |-> 0]

HighRiskRationale == "AI service unavailable. High-risk transaction requires manual review."
HighRiskAction == "HOLD transaction and escalate to senior analyst."
MediumRiskRationale == "AI service unavailable. Medium-risk transaction detected."
MediumRiskAction == "Review transaction details and customer history."
LowRiskRationale == "AI service unavailable. Low-risk transaction."
LowRiskAction == "Approve with standard monitoring."

\* _fallback_response with > for >=
fallback_response_exclusive(case_id, risk_score) ==
  IF risk_score > HighRiskThreshold
    THEN FallbackDict(case_id, HighRiskRationale, HighRiskAction)
    ELSE IF risk_score > MediumRiskThreshold
      THEN FallbackDict(case_id, MediumRiskRationale, MediumRiskAction)
      ELSE FallbackDict(case_id, LowRiskRationale, LowRiskAction)

\* WatsonXService._fallback_response
fallback_response(case_id, risk_score) ==
  IF risk_score >= HighRiskThreshold
    THEN FallbackDict(case_id, HighRiskRationale, HighRiskAction)
    ELSE IF risk_score >= MediumRiskThreshold
      THEN FallbackDict(case_id, MediumRiskRationale, MediumRiskAction)
      ELSE FallbackDict(case_id, LowRiskRationale, LowRiskAction)

\* response_data of generate_explanation after the metadata is added: the
\* decoded object with case_id, model_used and tokens_consumed set
ModelDict(case_id, fields, tokens) ==
  [case_id |-> case_id,
   keys |-> fields \cup {"case_id", "model_used", "tokens_consumed"},
   confidence |-> IF "confidence" \in fields THEN ModelConfidence ELSE NoConfidence,
   rationale |-> IF "rationale" \in fields THEN "model rationale" ELSE Absent,
   recommended_action |->
     IF "recommended_action" \in fields THEN "model action" ELSE Absent,
   model_used |-> MODEL_ID,
   tokens_consumed |-> tokens]

\* generate_explanation with an except clause that raises WatsonXAPIError
\* in place of returning the fallback
generate_explanation_raising(tracker, case, up) ==
  IF is_budget_exceeded(tracker)
    THEN [raised |-> "BudgetExceededError", body |-> NoBody,
          called |-> FALSE, did |-> "none", tracker |-> tracker]
    ELSE LET parsed == parse_response(up.text)
         IN IF up.kind # "text" \/ ~parsed.ok
              THEN [raised |-> "WatsonXAPIError", body |-> NoBody,
                    called |-> TRUE,
                    did |-> IF up.kind = "text" THEN "malformed" ELSE up.kind,
                    tracker |-> tracker]
              ELSE LET tokens_used == estimate_tokens(case.prompt_chars, up.text)
                   IN [raised |-> "none",
                       body |-> ModelDict(case.id, parsed.fields, tokens_used),
                       called |-> TRUE,
                       did |-> "parsed",
                       tracker |-> add_usage(tracker, tokens_used)]

\* generate_explanation that tracks the usage before it parses the response
generate_explanation_charging(tracker, case, up) ==
  IF is_budget_exceeded(tracker)
    THEN [raised |-> "BudgetExceededError", body |-> NoBody,
          called |-> FALSE, did |-> "none", tracker |-> tracker]
    ELSE LET parsed == parse_response(up.text)
             tokens_used == estimate_tokens(case.prompt_chars, up.text)
         IN IF up.kind # "text"
              THEN [raised |-> "none",
                    body |-> fallback_response(case.id, case.risk_score),
                    called |-> TRUE, did |-> up.kind, tracker |-> tracker]
              ELSE IF ~parsed.ok
                THEN [raised |-> "none",
                      body |-> fallback_response(case.id, case.risk_score),
                      called |-> TRUE, did |-> "malformed",
                      tracker |-> add_usage(tracker, tokens_used)]
                ELSE [raised |-> "none",
                      body |-> ModelDict(case.id, parsed.fields, tokens_used),
                      called |-> TRUE, did |-> "parsed",
                      tracker |-> add_usage(tracker, tokens_used)]

\* WatsonXService.generate_explanation, for the row case and what the model
\* does when it is called.  The coroutine has no await in it, so it runs
\* from the budget check to its return without another request in between.
\* raised: the exception that leaves it; called: generate_text was called;
\* did: what the call did (it timed out, failed with a 5xx, returned a text
\* that does not parse, returned one that does); tracker: the token tracker
\* when it is left.
generate_explanation(tracker, case, up) ==
  IF is_budget_exceeded(tracker)
    THEN [raised |-> "BudgetExceededError", body |-> NoBody,
          called |-> FALSE, did |-> "none", tracker |-> tracker]
    ELSE LET parsed == parse_response(up.text)
         IN IF up.kind # "text" \/ ~parsed.ok
              THEN [raised |-> "none",
                    body |-> fallback_response(case.id, case.risk_score),
                    called |-> TRUE,
                    did |-> IF up.kind = "text" THEN "malformed" ELSE up.kind,
                    tracker |-> tracker]
              ELSE LET tokens_used == estimate_tokens(case.prompt_chars, up.text)
                   IN [raised |-> "none",
                       body |-> ModelDict(case.id, parsed.fields, tokens_used),
                       called |-> TRUE,
                       did |-> "parsed",
                       tracker |-> add_usage(tracker, tokens_used)]


(* ------------------------- POST /explain, explainCase ------------------ *)

\* explain_case without the except clause for BudgetExceededError
explain_case_unmapped(tracker, case_id, up) ==
  IF case_id \notin CaseIds
    THEN [status |-> 404, body |-> NoBody, called |-> FALSE, did |-> "none",
          tracker |-> tracker]
    ELSE LET r == generate_explanation(tracker, CaseOf(case_id), up)
         IN IF r.raised # "none"
              THEN [status |-> 503, body |-> NoBody, called |-> r.called,
                    did |-> r.did, tracker |-> r.tracker]
              ELSE [status |-> 200, body |-> r.body, called |-> r.called,
                    did |-> r.did, tracker |-> r.tracker]

\* the explain_case route: 404 when the case has no row, 429 on
\* BudgetExceededError, 503 on any other exception, else the dict
\* generate_explanation returns
explain_case(tracker, case_id, up) ==
  IF case_id \notin CaseIds
    THEN [status |-> 404, body |-> NoBody, called |-> FALSE, did |-> "none",
          tracker |-> tracker]
    ELSE LET r == generate_explanation(tracker, CaseOf(case_id), up)
         IN IF r.raised = "BudgetExceededError"
              THEN [status |-> 429, body |-> NoBody, called |-> r.called,
                    did |-> r.did, tracker |-> r.tracker]
              ELSE IF r.raised # "none"
                THEN [status |-> 503, body |-> NoBody, called |-> r.called,
                      did |-> r.did, tracker |-> r.tracker]
                ELSE [status |-> 200, body |-> r.body, called |-> r.called,
                      did |-> r.did, tracker |-> r.tracker]

\* explainCase of the API client: the Explanation, or the Error it throws
explainCase(case_id, http) ==
  IF http.status = 200
    THEN [case_id |-> case_id, status |-> 200, error |-> "none", body |-> http.body]
    ELSE IF http.status = 404
      THEN [case_id |-> case_id, status |-> 404,
            error |-> "Case not found", body |-> NoBody]
      ELSE IF http.status = 429
        THEN [case_id |-> case_id, status |-> 429,
              error |-> "Token budget exceeded", body |-> NoBody]
        ELSE IF http.status = 503
          THEN [case_id |-> case_id, status |-> 503,
                error |-> "AI service unavailable", body |-> NoBody]
          ELSE [case_id |-> case_id, status |-> http.status,
                error |-> "Failed to generate explanation", body |-> NoBody]

NoResponse == [case_id |-> Absent, status |-> 0, error |-> "none", body |-> NoBody]

\* generate_text called again, up to the bound, when the text does not parse
generate_text_calls_retrying(http) ==
  IF http.called THEN (IF http.did = "malformed" THEN MaxAttempts ELSE 1) ELSE 0

\* the generate_text calls of one request: the try block makes one call,
\* whatever comes of it
generate_text_calls(http) == IF http.called THEN 1 ELSE 0

\* One explainCase call, from the fetch to the value or Error the caller gets.
Explain(case_id, up) ==
  /\ handled < MaxRequests
  /\ LET http == explain_case(token_tracker, case_id, up)
     IN /\ token_tracker' = http.tracker
        /\ response' = explainCase(case_id, http)
        /\ model_calls' = model_calls + generate_text_calls(http)
        /\ granted' = granted + http.body.tokens_consumed
        /\ upstream' = http.did
  /\ handled' = handled + 1
  /\ UNCHANGED <<cacheVars, orchVars, docVars, uiVars>>

\* explainCase up to its await: the fetch of POST /explain is sent
Submit(case_id) ==
  /\ pending = Absent
  /\ handled < MaxRequests
  /\ pending' = case_id
  /\ UNCHANGED <<serviceVars, cacheVars, orchVars, docVars, uiVars>>

\* the route serves the fetch that is pending and explainCase resumes
Serve(up) ==
  /\ pending # Absent
  /\ Explain(pending, up)
  /\ pending' = Absent

(* --------------------------- response cache ---------------------------- *)

OperationKinds == {"explain", "score", "compliance"}

\* the cases whose responses are cached and looked up
CachedIds == {"c49", "c94"}

\* the responses the callers hand to the cache, by the operation that made
\* them and by where they come from
CacheData == [kind : OperationKinds, origin : {"model", "fallback"}]

NoData == [kind |-> "none", origin |-> "none"]
NoEntry == [data |-> NoData, timestamp |-> -1]
NoGet == [case_id |-> Absent, kind |-> "none", hit |-> FALSE, data |-> NoData]

\* case_id in cache
InCache(c, case_id) == c[case_id] # NoEntry

\* cache_explanation: cache[case_id] = (explanation, datetime.now())
cache_explanation(c, case_id, explanation, t) ==
  [c EXCEPT ![case_id] = [data |-> explanation, timestamp |-> t]]

\* get_cached_explanation with <= for <
get_cached_explanation_inclusive(c, case_id, t) ==
  IF InCache(c, case_id) /\ t - c[case_id].timestamp <= CacheTTL
    THEN c[case_id].data
    ELSE NoData

\* get_cached_explanation: the cached data, or None
get_cached_explanation(c, case_id, t) ==
  IF InCache(c, case_id) /\ t - c[case_id].timestamp < CacheTTL
    THEN c[case_id].data
    ELSE NoData

\* ResponseCache.Put for the key (case_id, data.kind): the dict is keyed by
\* case_id, whatever the operation
Put(case_id, data) ==
  /\ cache' = cache_explanation(cache, case_id, data, now)
  /\ lastGet' = NoGet
  /\ UNCHANGED <<now, serviceVars, orchVars, pending, docVars, uiVars>>

\* ResponseCache.Get for the key (case_id, kind)
Get(case_id, kind) ==
  /\ LET got == get_cached_explanation(cache, case_id, now)
     IN lastGet' = [case_id |-> case_id, kind |-> kind,
                    hit |-> got # NoData, data |-> got]
  /\ UNCHANGED <<cache, now, serviceVars, orchVars, pending, docVars, uiVars>>

\* time passes
Tick ==
  /\ now < MaxTime
  /\ now' = now + 1
  /\ lastGet' = NoGet
  /\ UNCHANGED <<cache, serviceVars, orchVars, pending, docVars, uiVars>>

(* ------------------- Orchestrator (design, section 4.5) ---------------- *)

\* The handlers of POST /calculate-risk and of the compliance analysis are
\* not part of the sources; the request state machine below follows the
\* design: CacheCheck -> (hit: Return) | (miss: BudgetCheck); BudgetCheck ->
\* (denied: Fallback) | (granted: Invoke); Invoke -> (success: Commit, Cache,
\* Return) | (failure: ReleaseReservation, Fallback); Fallback -> rule-based
\* result, Cache (short window), Return.  Policy for concurrent requests of
\* one key: the later caller waits for the result of the caller in flight.

Callers == {"a", "b", "c"}

Keys == [caseId : {"c94"}, kind : {"score", "explain"}]

NoKey == [caseId |-> Absent, kind |-> "none"]
NoCaller == "nobody"

\* estimated cost of one call, checked at admission
Estimate == 2
\* validity window of fallback-origin entries, shorter than CacheTTL
FallbackTTL == 1

NoResult ==
  [caseId |-> Absent, kind |-> "none", origin |-> "none", payload |-> Absent,
   tokens |-> 0, confidence |-> NoConfidence]

ModelResult(key, actual) ==
  [caseId |-> key.caseId, kind |-> key.kind, origin |-> "model",
   payload |-> "model", tokens |-> actual, confidence |-> ModelConfidence]

\* the rule-based result: the template of the case's preliminary risk score
FallbackResult(key) ==
  [caseId |-> key.caseId, kind |-> key.kind, origin |-> "fallback",
   payload |-> fallback_response(key.caseId, CaseOf(key.caseId).risk_score).rationale,
   tokens |-> 0, confidence |-> 0]

\* two results say the same thing, wherever they come from
Equivalent(r1, r2) ==
  /\ r1.caseId = r2.caseId
  /\ r1.kind = r2.kind
  /\ r1.payload = r2.payload
  /\ r1.confidence = r2.confidence

NoStored == [result |-> NoResult, inserted |-> -1, window |-> 0]

\* BudgetTracker.TryReserve: spent + estimatedCost <= budget
TryReserve(s, estimatedCost) == s + estimatedCost <= budget_usd

\* ResponseCache: the entry of key is eligible at time t
Eligible(st, key, t) ==
  st[key] # NoStored /\ t - st[key].inserted < st[key].window

\* the in-flight lock of key is free
LockFree_never_held(key) == TRUE

LockFree(key) == inflight[key] = NoCaller

\* caller c returns res; the callers waiting for its key return it too, and
\* the in-flight lock of the key is released
Finish(c, res) ==
  LET done == {c} \cup {d \in Callers : pc[d] = "Wait" /\ req[d] = req[c]}
  IN /\ pc' = [d \in Callers |-> IF d \in done THEN "Return" ELSE pc[d]]
     /\ result' = [d \in Callers |-> IF d \in done THEN res ELSE result[d]]
     /\ inflight' = [inflight EXCEPT ![req[c]] = NoCaller]

\* a request arrives: it takes the in-flight lock of its key, or waits for
\* the caller that holds it
Arrive(c, key) ==
  /\ pc[c] = "idle"
  /\ req' = [req EXCEPT ![c] = key]
  /\ overlapped' = overlapped \cup
       { {c, d} : d \in {e \in Callers \ {c} : pc[e] \notin {"idle", "Return"}} }
  /\ IF LockFree(key)
       THEN /\ inflight' = [inflight EXCEPT ![key] = c]
            /\ pc' = [pc EXCEPT ![c] = "CacheCheck"]
       ELSE /\ inflight' = inflight
            /\ pc' = [pc EXCEPT ![c] = "Wait"]
  /\ UNCHANGED <<spent, requestCount, reserved, attempts, store, result,
                 serviceVars, cacheVars, pending, docVars, uiVars>>

\* CacheCheck: an eligible entry is returned; an expired one is evicted
CacheCheck(c) ==
  /\ pc[c] = "CacheCheck"
  /\ IF Eligible(store, req[c], now)
       THEN /\ Finish(c, [store[req[c]].result EXCEPT !.origin = "cache"])
            /\ store' = store
       ELSE /\ pc' = [pc EXCEPT ![c] = "BudgetCheck"]
            /\ store' = [store EXCEPT ![req[c]] = NoStored]
            /\ UNCHANGED <<result, inflight>>
  /\ UNCHANGED <<req, spent, requestCount, reserved, attempts, overlapped,
                 serviceVars, cacheVars, pending, docVars, uiVars>>

\* BudgetCheck: TryReserve raises spent by the estimate, or denies
BudgetCheck(c) ==
  /\ pc[c] = "BudgetCheck"
  /\ IF TryReserve(spent, Estimate)
       THEN /\ spent' = spent + Estimate
            /\ reserved' = [reserved EXCEPT ![c] = Estimate]
            /\ pc' = [pc EXCEPT ![c] = "Invoke"]
       ELSE /\ pc' = [pc EXCEPT ![c] = "Fallback"]
            /\ UNCHANGED <<spent, reserved>>
  /\ UNCHANGED <<req, inflight, requestCount, attempts, store, result,
                 overlapped, serviceVars, cacheVars, pending, docVars, uiVars>>

\* one attempt of InferenceClient.Invoke: it succeeds and the actual cost is
\* committed in place of the reservation, or it fails and the reservation is
\* released (a transient failure is retried while attempts remain)
Invoke(c, outcome, actual) ==
  /\ pc[c] = "Invoke"
  /\ attempts' = [attempts EXCEPT ![c] = @ + 1]
  /\ IF outcome = "ok"
       THEN LET res == ModelResult(req[c], actual)
            IN /\ spent' = spent - reserved[c] + actual
               /\ requestCount' = requestCount + 1
               /\ reserved' = [reserved EXCEPT ![c] = 0]
               /\ store' = [store EXCEPT ![req[c]] =
                              [result |-> res, inserted |-> now, window |-> CacheTTL]]
               /\ Finish(c, res)
       ELSE IF outcome = "transient" /\ attempts[c] + 1 < MaxAttempts
         THEN UNCHANGED <<pc, spent, requestCount, reserved, store, result, inflight>>
         ELSE /\ spent' = spent - reserved[c]
              /\ reserved' = [reserved EXCEPT ![c] = 0]
              /\ pc' = [pc EXCEPT ![c] = "Fallback"]
              /\ UNCHANGED <<requestCount, store, result, inflight>>
  /\ UNCHANGED <<req, overlapped, serviceVars, cacheVars, pending, docVars, uiVars>>

\* Fallback: the rule-based result, cached for the short window
Fallback(c) ==
  /\ pc[c] = "Fallback"
  /\ LET res == FallbackResult(req[c])
     IN /\ store' = [store EXCEPT ![req[c]] =
                       [result |-> res, inserted |-> now, window |-> FallbackTTL]]
        /\ Finish(c, res)
  /\ UNCHANGED <<req, spent, requestCount, reserved, attempts, overlapped,
                 serviceVars, cacheVars, pending, docVars, uiVars>>

\* time passes
OrchTick ==
  /\ now < MaxTime
  /\ now' = now + 1
  /\ UNCHANGED <<cache, lastGet, serviceVars, orchVars, pending, docVars, uiVars>>

\* the states of a request that has not ended and is not waiting
InProgress == {"CacheCheck", "BudgetCheck", "Invoke", "Fallback"}

\* the callers whose requests may be cancelled
LockCallers == {"a", "b"}

\* the in-flight locks after a cancelled caller has left, its lock kept
LockAfterLeaving_kept(c) == inflight

\* the in-flight locks after caller c has left: the lock it holds is released
LockAfterLeaving(c) ==
  IF inflight[req[c]] = c THEN [inflight EXCEPT ![req[c]] = NoCaller]
                          ELSE inflight

\* Cancellation: the caller times out or its client disconnects.  The
\* reservation made on its behalf is released and the request ends without a
\* result; the callers waiting for its key are left to take the lock.
Cancel(c) ==
  /\ pc[c] \in InProgress \cup {"Wait"}
  /\ pc' = [pc EXCEPT ![c] = "Cancelled"]
  /\ spent' = spent - reserved[c]
  /\ reserved' = [reserved EXCEPT ![c] = 0]
  /\ inflight' = LockAfterLeaving(c)
  /\ UNCHANGED <<req, requestCount, attempts, store, result, overlapped,
                 serviceVars, cacheVars, pending, docVars, uiVars>>

\* a waiting caller finds the lock of its key free and takes it
Resume(c) ==
  /\ pc[c] = "Wait"
  /\ LockFree(req[c])
  /\ inflight' = [inflight EXCEPT ![req[c]] = c]
  /\ pc' = [pc EXCEPT ![c] = "CacheCheck"]
  /\ UNCHANGED <<req, spent, requestCount, reserved, attempts, store, result,
                 overlapped, serviceVars, cacheVars, pending, docVars, uiVars>>

(* ------------------- documents page, /documents routes ----------------- *)

\* number of documents the store ingests in one behaviour
MaxDocuments == 2

\* "Supported formats: PDF, DOCX, Markdown, TXT"
SupportedTypes == {"pdf", "docx", "md", "txt"}

\* the files the user picks: their extension and the number of chunks their
\* text splits into
Files == [type : {"pdf", "md", "exe"}, parts : 1..2]

NoFile == [type |-> Absent, parts |-> 0]
NoDocument == 0

\* DocumentUploadResponse
NoUpload == [document_id |-> NoDocument, chunks_extracted |-> 0]

\* the response of a route: status, and the body or the error detail
NoDetail == Absent
UnsupportedDetail == "Unsupported file type"

\* DocumentMetadata of the document the store makes of file
DocumentOf(id, file) ==
  [id |-> id, file_type |-> file.type, chunk_count |-> file.parts]

\* the text span of the chunk at a position, as the set of its terms
ChunkText(file, position) ==
  IF position = 1 THEN {"kyc", file.type} ELSE {"aml", file.type}

\* the chunks of a document: its id, their ordinal positions and their text
ChunksOf(id, file) ==
  { [document_id |-> id, position |-> i, text |-> ChunkText(file, i)] :
      i \in 1..file.parts }

\* Delete that removes the first chunk of the document only
removeChunks_first(index, id) ==
  { c \in index : c.document_id # id \/ c.position > 1 }

\* Delete(documentId) on the index: every chunk of the document goes
removeChunks(index, id) == { c \in index : c.document_id # id }

NoRoundTrip == [state |-> "none", id |-> 0, before |-> {}]

\* POST /documents/upload: a file of a type outside the closed set is
\* rejected with 400 and nothing is stored; a supported file is ingested, or
\* its processing fails and nothing is stored.  detail: the detail the 400
\* response carries, if any
upload_route(file, id, detail, fails) ==
  IF file.type \notin SupportedTypes
    THEN [status |-> 400, detail |-> detail, upload |-> NoUpload,
          stored |-> {}, chunked |-> {}]
    ELSE IF fails
      THEN [status |-> 500, detail |-> NoDetail, upload |-> NoUpload,
            stored |-> {}, chunked |-> {}]
      ELSE [status |-> 200, detail |-> NoDetail,
            upload |-> [document_id |-> id, chunks_extracted |-> file.parts],
            stored |-> {DocumentOf(id, file)}, chunked |-> ChunksOf(id, file)]

\* uploadDocument that returns response.json() without looking at response.ok
uploadDocument_unchecked(http) ==
  [ok |-> TRUE, value |-> http.upload, error |-> "none"]

\* uploadDocument of the API client: the DocumentUploadResponse, or the Error
\* it throws
uploadDocument(http) ==
  IF http.status # 200
    THEN IF http.status = 400
           THEN [ok |-> FALSE, value |-> NoUpload,
                 error |-> IF http.detail # NoDetail THEN http.detail
                                                     ELSE "Invalid file type"]
           ELSE [ok |-> FALSE, value |-> NoUpload,
                 error |-> "Failed to upload document"]
    ELSE [ok |-> TRUE, value |-> http.upload, error |-> "none"]

\* deleteDocument of the API client over DELETE /documents/{id}
deleteDocument(found) ==
  IF found THEN [ok |-> TRUE, error |-> "none"]
           ELSE [ok |-> FALSE, error |-> "Document not found"]

\* handleFileChange up to its first await: the states are reset and the
\* upload is sent.  The upload button is disabled while uploading.
handleFileChange(file) ==
  /\ docPc = "idle"
  /\ ~uploading
  /\ nextDocument < MaxDocuments
  /\ uploading' = TRUE
  /\ pageError' = "none"
  /\ uploadSuccess' = NoUpload
  /\ docPc' = "upload"
  /\ docArg' = file
  /\ UNCHANGED <<documents, chunks, nextDocument, pageDocuments, delPc, delArg,
                 timers, serviceVars, cacheVars, orchVars, pending, uiVars>>

\* the upload route answers and handleFileChange resumes: on success it sets
\* uploadSuccess and starts fetchDocuments, on an Error it sets the error and
\* runs its finally block
UploadResponds(detail, fails) ==
  /\ docPc = "upload"
  /\ LET http == upload_route(docArg, nextDocument + 1, detail, fails)
         r    == uploadDocument(http)
     IN /\ documents' = documents \cup http.stored
        /\ chunks' = chunks \cup http.chunked
        /\ nextDocument' = nextDocument + Cardinality(http.stored)
        /\ roundTrip' = IF http.stored # {}
                          THEN [state |-> "ingested", id |-> nextDocument + 1,
                                before |-> chunks]
                          ELSE roundTrip
        /\ IF r.ok
             THEN /\ uploadSuccess' = r.value
                  /\ pageError' = "none"
                  /\ docPc' = "refetch"
                  /\ UNCHANGED <<uploading, docArg>>
             ELSE /\ pageError' = r.error
                  /\ uploading' = FALSE
                  /\ docPc' = "idle"
                  /\ docArg' = NoFile
                  /\ UNCHANGED uploadSuccess
  /\ UNCHANGED <<pageDocuments, delPc, delArg, timers,
                 serviceVars, cacheVars, orchVars, pending, dashVars, caseVars,
                 indexVars>>

\* getDocuments answers fetchDocuments of handleFileChange, which then arms
\* the timeout that clears uploadSuccess and runs its finally block
UploadRefetched(ok) ==
  /\ docPc = "refetch"
  /\ IF ok
       THEN pageDocuments' = documents /\ UNCHANGED pageError
       ELSE pageError' = "Failed to fetch documents" /\ UNCHANGED pageDocuments
  /\ uploading' = FALSE
  /\ docPc' = "idle"
  /\ docArg' = NoFile
  /\ timers' = timers + 1
  /\ UNCHANGED <<documents, chunks, nextDocument, uploadSuccess, delPc, delArg,
                 serviceVars, cacheVars, orchVars, pending, uiVars>>

\* setTimeout(() => setUploadSuccess(null), 5000)
ClearUploadSuccess ==
  /\ timers > 0
  /\ timers' = timers - 1
  /\ uploadSuccess' = NoUpload
  /\ UNCHANGED <<documents, chunks, nextDocument, pageDocuments, pageError,
                 uploading, docPc, docArg, delPc, delArg,
                 serviceVars, cacheVars, orchVars, pending, uiVars>>

\* handleDelete of a listed document, confirmed, up to its first await
handleDelete(id) ==
  /\ delPc = "idle"
  /\ \E d \in pageDocuments : d.id = id
  /\ delPc' = "delete"
  /\ delArg' = id
  /\ UNCHANGED <<documents, chunks, nextDocument, pageDocuments, pageError,
                 uploadSuccess, uploading, docPc, docArg, timers,
                 serviceVars, cacheVars, orchVars, pending, uiVars>>

\* DELETE /documents/{id} answers and handleDelete resumes: the document and
\* its chunks are removed and fetchDocuments starts, or the Error is shown
DeleteResponds ==
  /\ delPc = "delete"
  /\ LET r == deleteDocument(\E d \in documents : d.id = delArg)
     IN /\ documents' = {d \in documents : d.id # delArg}
        /\ chunks' = removeChunks(chunks, delArg)
        /\ roundTrip' = IF ~r.ok THEN roundTrip
                        ELSE IF roundTrip.state = "ingested" /\ roundTrip.id = delArg
                          THEN [roundTrip EXCEPT !.state = "deleted"]
                        ELSE NoRoundTrip
        /\ IF r.ok
             THEN /\ pageError' = "none"
                  /\ delPc' = "refetch"
                  /\ UNCHANGED delArg
             ELSE /\ pageError' = r.error
                  /\ delPc' = "idle"
                  /\ delArg' = NoDocument
  /\ UNCHANGED <<nextDocument, pageDocuments, uploadSuccess, uploading, docPc,
                 docArg, timers, serviceVars, cacheVars, orchVars, pending,
                 dashVars, caseVars, indexVars>>

\* getDocuments answers fetchDocuments of handleDelete
DeleteRefetched(ok) ==
  /\ delPc = "refetch"
  /\ IF ok
       THEN pageDocuments' = documents /\ UNCHANGED pageError
       ELSE pageError' = "Failed to fetch documents" /\ UNCHANGED pageDocuments
  /\ delPc' = "idle"
  /\ delArg' = NoDocument
  /\ UNCHANGED <<documents, chunks, nextDocument, uploadSuccess, uploading,
                 docPc, docArg, timers, serviceVars, cacheVars, orchVars, pending, uiVars>>

(* ------------------- DocumentStore index (design, 4.6, 5) -------------- *)

\* the largest k a Retrieve asks for
MaxK == 2

\* the query texts of the PromptBuilder, as sets of terms
Queries == { {"kyc"}, {"aml", "pdf"} }

NoBuilding == [op |-> "none", id |-> 0, file |-> NoFile, copy |-> {}]
NoRetrieved == [query |-> {}, k |-> 0, observed |-> {}, result |-> <<>>]

\* lexical overlap of a chunk with the query
Overlap(chunk, query) == Cardinality(chunk.text \cap query)

\* chunk a ranks before chunk b: more overlap, then document and position
RanksBefore(a, b, query) ==
  \/ Overlap(a, query) > Overlap(b, query)
  \/ /\ Overlap(a, query) = Overlap(b, query)
     /\ \/ a.document_id < b.document_id
        \/ a.document_id = b.document_id /\ a.position <= b.position

\* the top-k chunks of the index for the query, best first
RECURSIVE TopK(_, _, _)
TopK(index, query, k) ==
  IF k = 0 \/ index = {} THEN <<>>
  ELSE LET best == CHOOSE c \in index : \A o \in index : RanksBefore(c, o, query)
       IN <<best>> \o TopK(index \ {best}, query, k - 1)

\* a Retrieve that reads the index the writer is working on
readIndex_shared(published, writer) ==
  IF writer.op # "none" THEN writer.copy ELSE published

\* the index a Retrieve reads: the published snapshot
readIndex(published, writer) == published

\* Ingest starts: it takes a private copy of the index
BeginIngest(file) ==
  /\ building.op = "none"
  /\ file.type \in SupportedTypes
  /\ nextDocument < MaxDocuments
  /\ building' = [op |-> "ingest", id |-> nextDocument + 1, file |-> file,
                  copy |-> chunks]
  /\ UNCHANGED <<documents, chunks, nextDocument, retrieved, roundTrip,
                 docPageVars, serviceVars, cacheVars, orchVars, pending,
                 dashVars, caseVars>>

\* Ingest adds one chunk of the document to its copy
StageChunk ==
  /\ building.op = "ingest"
  /\ \E c \in ChunksOf(building.id, building.file) \ building.copy :
       /\ \A o \in ChunksOf(building.id, building.file) \ building.copy :
            c.position <= o.position
       /\ building' = [building EXCEPT !.copy = @ \cup {c}]
  /\ UNCHANGED <<documents, chunks, nextDocument, retrieved, roundTrip,
                 docPageVars, serviceVars, cacheVars, orchVars, pending,
                 dashVars, caseVars>>

\* Delete starts: it takes a private copy of the index
BeginDelete(id) ==
  /\ building.op = "none"
  /\ \E d \in documents : d.id = id
  /\ building' = [op |-> "delete", id |-> id, file |-> NoFile, copy |-> chunks]
  /\ UNCHANGED <<documents, chunks, nextDocument, retrieved, roundTrip,
                 docPageVars, serviceVars, cacheVars, orchVars, pending,
                 dashVars, caseVars>>

\* Delete removes one chunk of the document from its copy
UnstageChunk ==
  /\ building.op = "delete"
  /\ \E c \in building.copy :
       /\ c.document_id = building.id
       /\ building' = [building EXCEPT !.copy = @ \ {c}]
  /\ UNCHANGED <<documents, chunks, nextDocument, retrieved, roundTrip,
                 docPageVars, serviceVars, cacheVars, orchVars, pending,
                 dashVars, caseVars>>

\* the writer is done with its copy and swaps it in as the index
Publish ==
  /\ building.op # "none"
  /\ IF building.op = "ingest"
       THEN /\ ChunksOf(building.id, building.file) \subseteq building.copy
            /\ documents' = documents \cup {DocumentOf(building.id, building.file)}
            /\ nextDocument' = nextDocument + 1
       ELSE /\ building.copy = removeChunks(building.copy, building.id)
            /\ documents' = {d \in documents : d.id # building.id}
            /\ UNCHANGED nextDocument
  /\ chunks' = building.copy
  /\ building' = NoBuilding
  /\ UNCHANGED <<retrieved, roundTrip,
                 docPageVars, serviceVars, cacheVars, orchVars, pending,
                 dashVars, caseVars>>

\* Retrieve(queryText, k)
Retrieve(query, k) ==
  /\ LET index == readIndex(chunks, building)
     IN retrieved' = [query |-> query, k |-> k, observed |-> index,
                      result |-> TopK(index, query, k)]
  /\ UNCHANGED <<documents, chunks, nextDocument, building, roundTrip,
                 docPageVars, serviceVars, cacheVars, orchVars, pending,
                 dashVars, caseVars>>

(* ----------------------- dashboard, risk levels ------------------------- *)

\* risk_score runs from 0.0 to 1.0; in hundredths
MaxScore == 100
\* getRiskLevel: score >= 0.7 and score >= 0.4, in hundredths
HighRiskScore == 70
MediumRiskScore == 40

\* the values of the SelectItems of the risk level select
RiskOptions == {"1000", "0", "0.4", "0.7"}

\* the lists getCases can return: no case, or one case of any score; the
\* filter and the badge look at one row at a time
CaseLists ==
  {<<>>} \cup { <<[risk_score |-> score]>> : score \in 0..MaxScore }

\* getRiskLevel that puts the boundary scores one level down
getRiskLevel_exclusive(score) ==
  IF score > HighRiskScore THEN "High Risk"
  ELSE IF score > MediumRiskScore THEN "Medium Risk"
  ELSE "Low Risk"

\* getRiskLevel(score).label
getRiskLevel(score) ==
  IF score >= HighRiskScore THEN "High Risk"
  ELSE IF score >= MediumRiskScore THEN "Medium Risk"
  ELSE "Low Risk"

\* the risk conjunct of the filter of the case table; the name, country,
\* status and category conjuncts are true of every case at their defaults
riskFilter(selected, caseItem) ==
  IF selected = "0.7" THEN caseItem.risk_score >= HighRiskScore
  ELSE IF selected = "0.4"
    THEN caseItem.risk_score < HighRiskScore /\ caseItem.risk_score >= MediumRiskScore
  ELSE IF selected = "0"
    THEN caseItem.risk_score >= 0 /\ caseItem.risk_score < MediumRiskScore
  ELSE caseItem.risk_score >= 0

\* the rows of the table: the cases the filter admits, each with the label
\* its RiskBadge shows
tableRows(list, selected) ==
  { [risk_score |-> list[i].risk_score, label |-> getRiskLevel(list[i].risk_score)] :
      i \in { j \in 1..Len(list) : riskFilter(selected, list[j]) } }

\* fetchCases: the list replaces the cases state, or the failure is shown
fetchCases(data, fails) ==
  /\ IF fails
       THEN dashError' = "Failed to load cases" /\ UNCHANGED cases
       ELSE cases' = data /\ dashError' = "none"
  /\ UNCHANGED <<risk, serviceVars, cacheVars, orchVars, pending, docVars,
                 caseVars, indexVars, roundTrip>>

\* onValueChange of the risk level select, and the reset of the filters
setRisk(selected) ==
  /\ risk' = selected
  /\ UNCHANGED <<cases, dashError, serviceVars, cacheVars, orchVars, pending,
                 docVars, caseVars, indexVars, roundTrip>>

(* -------------------------- case detail page --------------------------- *)

\* requests of settled handleAnalyzeRisk runs that one behaviour leaves
\* outstanding at a time
MaxDropped == 1

\* the id of the route /cases/[id]
RouteId == "c94"

\* the versions of app/cases/[id]/page.tsx: one Explain button; separate
\* Explain and Calculate buttons; one combined AI Risk Analysis button
PageFiles == {"page.tsx", "part_008", "part_009"}
Unmounted == "unmounted"

NoCase == [id |-> "null", risk_score |-> 0, explanation_generated |-> FALSE]
NoError == "null"
NoExplanation == [case_id |-> "null"]
NoRiskScore == [case_id |-> "null", risk_score |-> 0]
NoAnalysis == [score |-> NoRiskScore, explanation |-> NoExplanation]
NoCategory == "null"

\* what GET /cases/{id} can return for the route id
ServerCases ==
  { [id |-> RouteId, risk_score |-> CaseOf(RouteId).risk_score,
     explanation_generated |-> g] : g \in BOOLEAN }

\* the scores POST /cases/{id}/calculate-risk and GET .../risk-score can return
CalculatedScores == {49, 80}

\* the Explanation and the RiskScore the API returns for a case
ExplanationOf(case_id) == [case_id |-> case_id]
RiskScoreOf(case_id, score) == [case_id |-> case_id, risk_score |-> score]

\* what a GET that may find nothing can do
Fetched == {"data", "null", "fails"}

\* the useState initial values
CasePageInit ==
  [caseData |-> NoCase, explanation |-> NoExplanation, riskScore |-> NoRiskScore,
   riskAnalysis |-> NoAnalysis, riskCategory |-> NoCategory, loading |-> TRUE,
   explaining |-> FALSE, calculating |-> FALSE, analyzingRisk |-> FALSE,
   error |-> NoError]

NoAnalyzeRun ==
  [caseData |-> NoCase, settled |-> "none", calc |-> "none", expl |-> "none",
   score |-> 0]

NoRace == [state |-> "none", risk_score |-> 0]

\* the page below the loading and error returns: header, cards, buttons
detailShown(file, s) == file # Unmounted /\ ~s.loading /\ s.caseData # NoCase

\* <ErrorState message={error} onRetry={fetchCase} />
retryShown(file, s) ==
  file # Unmounted /\ ~s.loading /\ s.error # NoError /\ s.caseData = NoCase

\* a header Explain Risk button that stays enabled during the request
headerExplainDisabled_idle(s) == s.caseData.explanation_generated

\* disabled={explaining || caseData.explanation_generated}
headerExplainDisabled(s) == s.explaining \/ s.caseData.explanation_generated

\* the card "No AI Explanation Yet" and its button, disabled={explaining}
promptShown(s) == s.explanation = NoExplanation /\ ~s.caseData.explanation_generated
promptExplainDisabled(s) == s.explaining

\* fetchCase that returns from the catch of getCase
afterGetCase_returning(file, ok, data) ==
  IF ~ok THEN "idle"
  ELSE IF file = "page.tsx" THEN "done"
  ELSE IF file = "part_008"
    THEN (IF data.explanation_generated THEN "getExplanation" ELSE "getRiskScore")
  ELSE (IF data.explanation_generated THEN "getStored" ELSE "getRiskCategory")

\* fetchCase: the request that follows getCase; "done" is the finally block
afterGetCase(file, ok, data) ==
  IF file = "page.tsx" THEN "done"
  ELSE IF ~ok THEN "getRiskCategory"
  ELSE IF file = "part_008"
    THEN (IF data.explanation_generated THEN "getExplanation" ELSE "getRiskScore")
  ELSE (IF data.explanation_generated THEN "getStored" ELSE "getRiskCategory")

\* fetchCase up to its first await
startFetch(s) == [s EXCEPT !.loading = TRUE, !.error = NoError]

\* useEffect(() => { fetchCase() }, [id]) of the version that is deployed
mount(file) ==
  /\ pageFile = Unmounted
  /\ pageFile' = file
  /\ casePage' = startFetch(casePage)
  /\ fetchPc' = "getCase"
  /\ UNCHANGED <<explainRuns, calculateRuns, analyzeRun, dropped, race,
                 serviceVars, cacheVars, orchVars, pending, docVars, dashVars,
                 indexVars, roundTrip>>

\* onRetry={fetchCase}
retry ==
  /\ retryShown(pageFile, casePage)
  /\ fetchPc = "idle"
  /\ casePage' = startFetch(casePage)
  /\ fetchPc' = "getCase"
  /\ UNCHANGED <<pageFile, explainRuns, calculateRuns, analyzeRun, dropped, race,
                 serviceVars, cacheVars, orchVars, pending, docVars, dashVars,
                 indexVars, roundTrip>>

\* fetchCase from the return of getCase to the next await or the end
getCaseResponds(ok, data) ==
  /\ fetchPc = "getCase"
  /\ LET step == afterGetCase(pageFile, ok, data)
         s1 == IF ok THEN [casePage EXCEPT !.caseData = data]
                     ELSE [casePage EXCEPT !.error = "Failed to fetch case"]
     IN /\ casePage' = IF step = "done" THEN [s1 EXCEPT !.loading = FALSE] ELSE s1
        /\ fetchPc' = IF step = "done" THEN "idle" ELSE step
  /\ UNCHANGED <<pageFile, explainRuns, calculateRuns, analyzeRun, dropped, race,
                 serviceVars, cacheVars, orchVars, pending, docVars, dashVars,
                 indexVars, roundTrip>>

\* part_008: fetchCase from the return of getExplanation to the next await
getExplanationResponds(fetched) ==
  /\ fetchPc = "getExplanation"
  /\ casePage' = IF fetched = "data"
                   THEN [casePage EXCEPT !.explanation = ExplanationOf(RouteId)]
                   ELSE casePage
  /\ fetchPc' = "getRiskScore"
  /\ UNCHANGED <<pageFile, explainRuns, calculateRuns, analyzeRun, dropped, race,
                 serviceVars, cacheVars, orchVars, pending, docVars, dashVars,
                 indexVars, roundTrip>>

\* part_008: fetchCase from the return of getRiskScore to the next await
getRiskScoreResponds(fetched, score) ==
  /\ fetchPc = "getRiskScore"
  /\ casePage' = IF fetched = "data"
                   THEN [casePage EXCEPT !.riskScore = RiskScoreOf(RouteId, score)]
                   ELSE casePage
  /\ fetchPc' = "getRiskCategory"
  /\ UNCHANGED <<pageFile, explainRuns, calculateRuns, analyzeRun, dropped, race,
                 serviceVars, cacheVars, orchVars, pending, docVars, dashVars,
                 indexVars, roundTrip>>

\* part_009: fetchCase from the return of Promise.all([getExplanation(id)
\* .catch(() => null), getRiskScore(id).catch(() => null)]) to the next await
getStoredResponds(explanationFetched, scoreFetched, score) ==
  /\ fetchPc = "getStored"
  /\ casePage' = IF explanationFetched = "data" /\ scoreFetched = "data"
                   THEN [casePage EXCEPT !.riskAnalysis =
                           [score |-> RiskScoreOf(RouteId, score),
                            explanation |-> ExplanationOf(RouteId)]]
                   ELSE casePage
  /\ fetchPc' = "getRiskCategory"
  /\ UNCHANGED <<pageFile, explainRuns, calculateRuns, analyzeRun, dropped, race,
                 serviceVars, cacheVars, orchVars, pending, docVars, dashVars,
                 indexVars, roundTrip>>

\* fetchCase from the return of getRiskCategory to its end
getRiskCategoryResponds(fetched) ==
  /\ fetchPc = "getRiskCategory"
  /\ casePage' =
       [casePage EXCEPT
          !.riskCategory = IF fetched = "data" THEN "Fraud" ELSE @,
          !.error = IF fetched = "fails" THEN "Failed to fetch risk category" ELSE @,
          !.loading = FALSE]
  /\ fetchPc' = "idle"
  /\ UNCHANGED <<pageFile, explainRuns, calculateRuns, analyzeRun, dropped, race,
                 serviceVars, cacheVars, orchVars, pending, docVars, dashVars,
                 indexVars, roundTrip>>

\* the sequence without its i-th element
Without(runs, i) == SubSeq(runs, 1, i - 1) \o SubSeq(runs, i + 1, Len(runs))

\* page.tsx, part_008: handleExplainRisk up to the await; the handler keeps
\* the caseData of the render the click came from
handleExplainRisk ==
  /\ pageFile \in {"page.tsx", "part_008"}
  /\ detailShown(pageFile, casePage)
  /\ \/ ~headerExplainDisabled(casePage)
     \/ promptShown(casePage) /\ ~promptExplainDisabled(casePage)
  /\ explainRuns' = Append(explainRuns, casePage.caseData)
  /\ casePage' = [casePage EXCEPT !.explaining = TRUE, !.error = NoError]
  /\ race' = IF calculateRuns # <<>>
               THEN [state |-> "together", risk_score |-> 0] ELSE NoRace
  /\ UNCHANGED <<pageFile, fetchPc, calculateRuns, analyzeRun, dropped,
                 serviceVars, cacheVars, orchVars, pending, docVars, dashVars,
                 indexVars, roundTrip>>

\* handleExplainRisk from the return of explainCase to its end
explainResponds(i, ok) ==
  /\ i \in 1..Len(explainRuns)
  /\ casePage' =
       IF ok
         THEN [casePage EXCEPT
                 !.explanation = ExplanationOf(explainRuns[i].id),
                 !.caseData = [explainRuns[i] EXCEPT !.explanation_generated = TRUE],
                 !.explaining = FALSE]
         ELSE [casePage EXCEPT !.error = "Failed to generate explanation",
                               !.explaining = FALSE]
  /\ explainRuns' = Without(explainRuns, i)
  /\ race' = IF ~ok THEN NoRace
             ELSE IF race.state = "together" THEN [race EXCEPT !.state = "explained"]
             ELSE IF race.state = "calculated" THEN [race EXCEPT !.state = "both"]
             ELSE NoRace
  /\ UNCHANGED <<pageFile, fetchPc, calculateRuns, analyzeRun, dropped,
                 serviceVars, cacheVars, orchVars, pending, docVars, dashVars,
                 indexVars, roundTrip>>

\* part_008: handleCalculateRisk up to the await; disabled={calculating}
handleCalculateRisk ==
  /\ pageFile = "part_008"
  /\ detailShown(pageFile, casePage)
  /\ ~casePage.calculating
  /\ calculateRuns' = Append(calculateRuns, casePage.caseData)
  /\ casePage' = [casePage EXCEPT !.calculating = TRUE, !.error = NoError]
  /\ race' = IF explainRuns # <<>>
               THEN [state |-> "together", risk_score |-> 0] ELSE NoRace
  /\ UNCHANGED <<pageFile, fetchPc, explainRuns, analyzeRun, dropped,
                 serviceVars, cacheVars, orchVars, pending, docVars, dashVars,
                 indexVars, roundTrip>>

\* handleCalculateRisk from the return of calculateRiskScore to its end
calculateResponds(i, ok, score) ==
  /\ i \in 1..Len(calculateRuns)
  /\ casePage' =
       IF ok
         THEN [casePage EXCEPT
                 !.riskScore = RiskScoreOf(calculateRuns[i].id, score),
                 !.caseData = [calculateRuns[i] EXCEPT !.risk_score = score],
                 !.calculating = FALSE]
         ELSE [casePage EXCEPT !.error = "Failed to calculate risk score",
                               !.calculating = FALSE]
  /\ calculateRuns' = Without(calculateRuns, i)
  /\ race' = IF ~ok THEN NoRace
             ELSE IF race.state = "together"
               THEN [state |-> "calculated", risk_score |-> score]
             ELSE IF race.state = "explained"
               THEN [state |-> "both", risk_score |-> score]
             ELSE NoRace
  /\ UNCHANGED <<pageFile, fetchPc, explainRuns, analyzeRun, dropped,
                 serviceVars, cacheVars, orchVars, pending, docVars, dashVars,
                 indexVars, roundTrip>>

\* a combinator that is fulfilled as soon as one of the two promises is
promiseAll_any(calc, expl) ==
  IF calc = "ok" \/ expl = "ok" THEN "fulfilled"
  ELSE IF calc = "failed" /\ expl = "failed" THEN "rejected"
  ELSE "pending"

\* Promise.all of two promises: rejected with the first rejection, fulfilled
\* when both are fulfilled
promiseAll(calc, expl) ==
  IF calc = "failed" \/ expl = "failed" THEN "rejected"
  ELSE IF calc = "ok" /\ expl = "ok" THEN "fulfilled"
  ELSE "pending"

\* requests of the run that nobody awaits any more
Outstanding(run) ==
  (IF run.calc = "pending" THEN 1 ELSE 0) + (IF run.expl = "pending" THEN 1 ELSE 0)

\* part_009: handleAnalyzeRisk up to the await; disabled={analyzingRisk}
handleAnalyzeRisk ==
  /\ pageFile = "part_009"
  /\ detailShown(pageFile, casePage)
  /\ ~casePage.analyzingRisk
  /\ dropped + Outstanding(analyzeRun) <= MaxDropped
  /\ dropped' = dropped + Outstanding(analyzeRun)
  /\ analyzeRun' = [caseData |-> casePage.caseData, settled |-> "pending",
                    calc |-> "pending", expl |-> "pending", score |-> 0]
  /\ casePage' = [casePage EXCEPT !.analyzingRisk = TRUE, !.error = NoError]
  /\ UNCHANGED <<pageFile, fetchPc, explainRuns, calculateRuns, race,
                 serviceVars, cacheVars, orchVars, pending, docVars, dashVars,
                 indexVars, roundTrip>>

\* handleAnalyzeRisk from the settling of Promise.all to its end
analyzeSettles(s, run, settled) ==
  IF settled = "fulfilled"
    THEN [s EXCEPT
            !.riskAnalysis =
               [score |-> IF run.calc = "ok"
                            THEN RiskScoreOf(run.caseData.id, run.score)
                            ELSE NoRiskScore,
                explanation |-> IF run.expl = "ok"
                                  THEN ExplanationOf(run.caseData.id)
                                  ELSE NoExplanation],
            !.caseData = [run.caseData EXCEPT !.risk_score = run.score,
                                              !.explanation_generated = TRUE],
            !.analyzingRisk = FALSE]
  ELSE IF settled = "rejected"
    THEN [s EXCEPT !.error = "AI service unavailable", !.analyzingRisk = FALSE]
  ELSE s

\* one of the two requests of handleAnalyzeRisk returns; the handler goes
\* on when Promise.all settles, and a return after that is dropped
analyzeResponds(which, ok, score) ==
  /\ IF which = "calc" THEN analyzeRun.calc = "pending" ELSE analyzeRun.expl = "pending"
  /\ LET run == IF which = "calc"
                  THEN [analyzeRun EXCEPT !.calc = IF ok THEN "ok" ELSE "failed",
                                          !.score = IF ok THEN score ELSE @]
                  ELSE [analyzeRun EXCEPT !.expl = IF ok THEN "ok" ELSE "failed"]
         settled == IF analyzeRun.settled = "pending"
                      THEN promiseAll(run.calc, run.expl) ELSE analyzeRun.settled
     IN /\ analyzeRun' = [run EXCEPT !.settled = settled]
        /\ casePage' = IF analyzeRun.settled = "pending"
                         THEN analyzeSettles(casePage, run, settled)
                         ELSE casePage
  /\ UNCHANGED <<pageFile, fetchPc, explainRuns, calculateRuns, dropped, race,
                 serviceVars, cacheVars, orchVars, pending, docVars, dashVars,
                 indexVars, roundTrip>>

\* a request of an earlier handleAnalyzeRisk run returns
droppedResponds ==
  /\ dropped > 0
  /\ dropped' = dropped - 1
  /\ UNCHANGED <<pageFile, casePage, fetchPc, explainRuns, calculateRuns,
                 analyzeRun, race,
                 serviceVars, cacheVars, orchVars, pending, docVars, dashVars,
                 indexVars, roundTrip>>

(* --------------------------- specifications ---------------------------- *)

Init ==
  /\ token_tracker = TokenTrackerInit
  /\ response = NoResponse
  /\ handled = 0
  /\ model_calls = 0
  /\ granted = 0
  /\ upstream = "none"
  /\ cache = [id \in CaseIds |-> NoEntry]
  /\ now = 0
  /\ lastGet = NoGet
  /\ pc = [c \in Callers |-> "idle"]
  /\ req = [c \in Callers |-> NoKey]
  /\ inflight = [k \in Keys |-> NoCaller]
  /\ spent = 0
  /\ requestCount = 0
  /\ reserved = [c \in Callers |-> 0]
  /\ attempts = [c \in Callers |-> 0]
  /\ store = [k \in Keys |-> NoStored]
  /\ result = [c \in Callers |-> NoResult]
  /\ overlapped = {}
  /\ pending = Absent
  /\ documents = {}
  /\ chunks = {}
  /\ nextDocument = 0
  /\ pageDocuments = {}
  /\ pageError = "none"
  /\ uploadSuccess = NoUpload
  /\ uploading = FALSE
  /\ docPc = "idle"
  /\ docArg = NoFile
  /\ delPc = "idle"
  /\ delArg = NoDocument
  /\ timers = 0
  /\ cases = <<>>
  /\ risk = "1000"
  /\ dashError = "none"
  /\ pageFile = Unmounted
  /\ casePage = CasePageInit
  /\ fetchPc = "idle"
  /\ explainRuns = <<>>
  /\ calculateRuns = <<>>
  /\ analyzeRun = NoAnalyzeRun
  /\ dropped = 0
  /\ race = NoRace
  /\ roundTrip = NoRoundTrip
  /\ building = NoBuilding
  /\ retrieved = NoRetrieved

Next ==
  \E case_id \in RequestIds, up \in Upstream :
    Explain(case_id, up) /\ UNCHANGED pending

Spec == Init /\ [][Next]_vars

CacheNext ==
  \/ \E case_id \in CachedIds, data \in CacheData : Put(case_id, data)
  \/ \E case_id \in CachedIds, kind \in OperationKinds : Get(case_id, kind)
  \/ Tick

CacheSpec == Init /\ [][CacheNext]_vars

OrchNext ==
  \/ \E c \in Callers, key \in Keys : Arrive(c, key)
  \/ \E c \in Callers : CacheCheck(c)
  \/ \E c \in Callers : BudgetCheck(c)
  \/ \E c \in Callers, outcome \in {"ok", "transient", "malformed"},
        actual \in 1..Estimate : Invoke(c, outcome, actual)
  \/ \E c \in Callers : Fallback(c)
  \/ OrchTick

OrchSpec == Init /\ [][OrchNext]_vars

\* the next step of the request of caller c
Proceed(c) ==
  \/ CacheCheck(c)
  \/ BudgetCheck(c)
  \/ \E outcome \in {"ok", "transient", "malformed"}, actual \in 1..Estimate :
        Invoke(c, outcome, actual)
  \/ Fallback(c)
  \/ Resume(c)

\* the request state machine with cancellation; every attempt of the
\* upstream call returns or times out, and a caller that can take its next
\* step takes it
LockNext ==
  \/ \E c \in LockCallers, key \in Keys : Arrive(c, key)
  \/ \E c \in LockCallers : Proceed(c)
  \/ \E c \in LockCallers : Cancel(c)
  \/ OrchTick

LockSpec ==
  Init /\ [][LockNext]_vars /\ \A c \in LockCallers : WF_vars(Proceed(c))

\* what generate_text does for the fetches that are served one at a time:
\* it raises, or returns a text that stops short of MAX_NEW_TOKENS
ServedUpstream == {up \in Upstream : Len(up.text) < MaxNewTokens}

\* explainCase calls, each a fetch that the route serves; a fetch that was
\* sent is served
LiveNext ==
  \/ \E case_id \in RequestIds : Submit(case_id)
  \/ \E up \in ServedUpstream : Serve(up)

LiveSpec ==
  Init /\ [][LiveNext]_vars /\ WF_vars(\E up \in ServedUpstream : Serve(up))

DocNext ==
  \/ \E file \in Files : handleFileChange(file)
  \/ \E detail \in {NoDetail, UnsupportedDetail}, fails \in BOOLEAN :
        UploadResponds(detail, fails)
  \/ \E ok \in BOOLEAN : UploadRefetched(ok)
  \/ ClearUploadSuccess
  \/ \E id \in 1..MaxDocuments : handleDelete(id)
  \/ DeleteResponds
  \/ \E ok \in BOOLEAN : DeleteRefetched(ok)

DocSpec == Init /\ [][DocNext]_vars


DashNext ==
  \/ \E data \in CaseLists, fails \in BOOLEAN : fetchCases(data, fails)
  \/ \E selected \in RiskOptions : setRisk(selected)

DashSpec == Init /\ [][DashNext]_vars


\* the steps of fetchCase that need no click: the effect and the returns of
\* its requests
FetchStep ==
  \/ \E file \in PageFiles : mount(file)
  \/ \E ok \in BOOLEAN, data \in ServerCases : getCaseResponds(ok, data)
  \/ \E fetched \in Fetched : getExplanationResponds(fetched)
  \/ \E fetched \in Fetched, score \in CalculatedScores :
        getRiskScoreResponds(fetched, score)
  \/ \E explanationFetched \in Fetched, scoreFetched \in Fetched,
        score \in CalculatedScores :
        getStoredResponds(explanationFetched, scoreFetched, score)
  \/ \E fetched \in Fetched : getRiskCategoryResponds(fetched)

PageNext ==
  \/ FetchStep
  \/ retry
  \/ handleExplainRisk
  \/ \E i \in 1..Len(explainRuns), ok \in BOOLEAN : explainResponds(i, ok)
  \/ handleCalculateRisk
  \/ \E i \in 1..Len(calculateRuns), ok \in BOOLEAN, score \in CalculatedScores :
        calculateResponds(i, ok, score)
  \/ handleAnalyzeRisk
  \/ \E which \in {"calc", "expl"}, ok \in BOOLEAN, score \in CalculatedScores :
        analyzeResponds(which, ok, score)
  \/ droppedResponds

\* the effect runs after the mount, and every request fetchCase awaits returns
PageSpec == Init /\ [][PageNext]_vars /\ WF_vars(FetchStep)


\* the document store with Ingest and Delete that take several steps, next
\* to the Retrieve calls of compliance requests
IndexNext ==
  \/ \E file \in Files : BeginIngest(file)
  \/ StageChunk
  \/ \E id \in 1..MaxDocuments : BeginDelete(id)
  \/ UnstageChunk
  \/ Publish
  \/ \E query \in Queries, k \in 1..MaxK : Retrieve(query, k)

IndexSpec == Init /\ [][IndexNext]_vars


(* ------------------------------ properties ----------------------------- *)

\* a step that serves one explainCase call
ExplainStep == handled' = handled + 1

IsFallback(resp) == resp.status = 200 /\ resp.body.model_used = FALLBACK_MODEL

\* C1: the sum of the estimates of the calls let past the budget check never
\* exceeds the configured budget.
C1_GrantedWithinBudget == granted <= budget_usd

\* C2: in every reachable state the consumed cost is at most the budget.
C2_SpentWithinBudget == get_spent_usd(token_tracker) <= budget_usd

C6_SecondExplainIsFree ==
  [][(response.status = 200 /\ ExplainStep
        /\ response'.case_id = response.case_id)
       => /\ model_calls' = model_calls
          /\ token_tracker' = token_tracker]_vars

\* C9: every result whose origin is fallback has tokens_consumed = 0 and
\* confidence = 0.
C9_FallbackClaimsNothing ==
  IsFallback(response) =>
    /\ response.body.tokens_consumed = 0
    /\ response.body.confidence = 0

\* a fallback result reached the caller after an unparseable model text
C9_Witness == IsFallback(response) /\ upstream = "malformed"

\* C10: the fallback template follows the case's risk score alone: >= 0.80
\* high, >= 0.50 and < 0.80 medium, < 0.50 low.
C10_TemplateByScore ==
  IsFallback(response) =>
    LET score == CaseOf(response.case_id).risk_score
        body  == response.body
    IN /\ (score >= 80 =>
             /\ body.rationale = HighRiskRationale
             /\ body.recommended_action = HighRiskAction)
       /\ (score >= 50 /\ score < 80 =>
             /\ body.rationale = MediumRiskRationale
             /\ body.recommended_action = MediumRiskAction)
       /\ (score < 50 =>
             /\ body.rationale = LowRiskRationale
             /\ body.recommended_action = LowRiskAction)

\* a fallback result for the case whose score is exactly 0.80
C10_Witness ==
  /\ IsFallback(response)
  /\ CaseOf(response.case_id).risk_score = 80
  /\ response.body.rationale = HighRiskRationale

\* C7: a lookup of a cached key hits, with the stored data, exactly while
\* now - insertion timestamp < validity window, and misses from then on.
C7_HitWithinWindow ==
  (lastGet # NoGet /\ InCache(cache, lastGet.case_id)) =>
    LET entry == cache[lastGet.case_id]
    IN IF now - entry.timestamp < CacheTTL
         THEN lastGet.hit /\ lastGet.data = entry.data
         ELSE ~lastGet.hit /\ lastGet.data = NoData

\* a lookup at the instant the window closes missed the stored entry
C7_Witness ==
  /\ lastGet # NoGet
  /\ InCache(cache, lastGet.case_id)
  /\ now - cache[lastGet.case_id].timestamp = CacheTTL
  /\ ~lastGet.hit

\* C8: a lookup for one operation kind never returns a result stored by a
\* different operation kind of the same case.
C8_KeyedByKind == lastGet.hit => lastGet.data.kind = lastGet.kind


\* the requests of c and d were in progress together
Together(c, d) == c = d \/ {c, d} \in overlapped

\* the callers that called the model for the key of c1 while the requests of
\* c1 and c2 were in progress
Payers(c1, c2) ==
  {c \in Callers : /\ req[c] = req[c1] /\ attempts[c] > 0
                   /\ Together(c, c1) /\ Together(c, c2)}

\* C3: two Score requests for one case that are in progress together return
\* equivalent results and never both call the model; when no cache entry was
\* found and the budget was granted (the result is of model origin), exactly
\* one caller called the model for them.
C3_OneCallForConcurrentScores ==
  \A c1 \in Callers : \A c2 \in Callers \ {c1} :
    (/\ pc[c1] = "Return" /\ pc[c2] = "Return"
     /\ req[c1] = req[c2] /\ req[c1].kind = "score"
     /\ {c1, c2} \in overlapped)
    => /\ Equivalent(result[c1], result[c2])
       /\ ~(attempts[c1] > 0 /\ attempts[c2] > 0)
       /\ (result[c1].origin = "model" =>
             /\ Cardinality(Payers(c1, c2)) = 1
             /\ result[c2] = result[c1])

\* two Score requests for one case were in progress together; one called the
\* model, the other returned the same result without a call
C3_Witness ==
  \E c1 \in Callers : \E c2 \in Callers \ {c1} :
    /\ pc[c1] = "Return" /\ pc[c2] = "Return"
    /\ req[c1] = req[c2] /\ req[c1].kind = "score"
    /\ {c1, c2} \in overlapped
    /\ result[c1].origin = "model"
    /\ attempts[c1] > 0 /\ attempts[c2] = 0
    /\ result[c2] = result[c1]
    /\ budget_usd - spent < Estimate

\* the model call of the last step failed: it timed out, answered 5xx, or
\* returned a text that does not parse
FailedCall == {"timeout", "error5xx", "malformed"}

\* C11: when the upstream call fails transiently (timeout or 5xx), exactly
\* MaxAttempts = 3 attempts are made before the caller gets the fallback
\* result; for the case with risk score 0.94 that result has the high-risk
\* rationale, the escalation action and tokens_consumed = 0.
C11_ThreeAttemptsThenFallback ==
  [][(ExplainStep /\ upstream' \in {"timeout", "error5xx"})
       => /\ model_calls' = model_calls + MaxAttempts
          /\ IsFallback(response')
          /\ response'.body.tokens_consumed = 0
          /\ (CaseOf(response'.case_id).risk_score = 94 =>
                /\ response'.body.rationale = HighRiskRationale
                /\ response'.body.recommended_action = HighRiskAction)]_vars

\* the text the model returned in the last step does not parse, or parses
\* to an object that lacks a required field
MalformedText ==
  \/ upstream = "malformed"
  \/ /\ upstream = "parsed"
     /\ ~(RequiredFields \subseteq response.body.keys)

C13_ModelResultHasRequiredFields ==
  (response.status = 200 /\ response.body.model_used = MODEL_ID)
    => RequiredFields \subseteq response.body.keys

C17_CommitAddsActualOnce ==
  [][(ExplainStep /\ upstream' = "parsed")
       => /\ get_spent_usd(token_tracker') =
               get_spent_usd(token_tracker) + response'.body.tokens_consumed
          /\ token_tracker'.requests_count = token_tracker.requests_count + 1]_vars

\* a second successful call was added to the cost of the first
C17_Witness ==
  /\ upstream = "parsed"
  /\ token_tracker.requests_count = 2
  /\ response.body.tokens_consumed > 0
  /\ get_spent_usd(token_tracker) > response.body.tokens_consumed

\* C18: the consumed cost never drops below a value it had earlier.
C18_SpentNeverDrops ==
  [][get_spent_usd(token_tracker') >= get_spent_usd(token_tracker)]_vars

\* the cost was raised by one call and kept through a later call that
\* added nothing
C18_Witness ==
  /\ handled = 2
  /\ token_tracker.requests_count = 2
  /\ response.body.tokens_consumed = 0
  /\ get_spent_usd(token_tracker) > 0

C19_FallbackExpiresFirst ==
  \A f \in CachedIds : \A m \in CachedIds :
    (/\ InCache(cache, f) /\ InCache(cache, m)
     /\ cache[f].data.origin = "fallback"
     /\ cache[m].data.origin = "model"
     /\ cache[f].timestamp = cache[m].timestamp)
    => \E t \in cache[m].timestamp..(cache[m].timestamp + CacheTTL) :
         /\ get_cached_explanation(cache, f, t) = NoData
         /\ get_cached_explanation(cache, m, t) # NoData

\* C15: the in-flight lock of a key is held only by a request that has not
\* ended (no finished, failed or cancelled request leaves it held), and a
\* request that waits for the lock eventually proceeds.
C15_LockNeverLeftHeld ==
  /\ [](\A k \in Keys :
          inflight[k] # NoCaller =>
            pc[inflight[k]] \in InProgress /\ req[inflight[k]] = k)
  /\ \A c \in LockCallers : (pc[c] = "Wait") ~> (pc[c] # "Wait")

\* the holder of a lock was cancelled after it had called the model, and the
\* request that waited for the same key went on to call the model and returned
C15_Witness ==
  \E c \in LockCallers : \E d \in LockCallers \ {c} :
    /\ pc[c] = "Cancelled" /\ pc[d] = "Return"
    /\ req[c] = req[d]
    /\ {c, d} \in overlapped
    /\ attempts[c] > 0 /\ attempts[d] > 0
    /\ inflight[req[c]] = NoCaller

\* C20: the upload of a file of an unsupported type fails with the error of
\* the unsupported type and changes nothing: no document and no chunk is
\* stored, the list the page shows is the same and is not fetched again.
C20_UnsupportedUploadChangesNothing ==
  [][(docPc = "upload" /\ docArg.type \notin SupportedTypes /\ docPc' # "upload")
       => /\ documents' = documents
          /\ chunks' = chunks
          /\ nextDocument' = nextDocument
          /\ pageDocuments' = pageDocuments
          /\ pageError' \in {UnsupportedDetail, "Invalid file type"}
          /\ uploadSuccess' = NoUpload
          /\ uploading' = FALSE
          /\ docPc' = "idle"]_vars

\* an unsupported file was refused while the store and the page held a
\* document
C20_Witness ==
  /\ pageError = "Invalid file type"
  /\ docPc = "idle"
  /\ documents # {}
  /\ pageDocuments = documents
  /\ Cardinality(chunks) > 0

\* C25: a lookup of a key whose entry has expired reports a miss and removes
\* the entry: after the miss the key has no entry in the cache.
C25_ExpiredEntryEvicted ==
  (lastGet # NoGet /\ ~lastGet.hit) => ~InCache(cache, lastGet.case_id)

\* C30: tokens_used and requests_count change only in the request whose
\* model response was parsed, and together: that request raises
\* requests_count by one and tokens_used by its tokens; a request that ends
\* in the fallback or is refused for budget leaves both unchanged.
C30_CountersMoveTogether ==
  [][/\ (token_tracker' # token_tracker => ExplainStep /\ upstream' = "parsed")
     /\ (ExplainStep /\ upstream' = "parsed" =>
           /\ token_tracker'.requests_count = token_tracker.requests_count + 1
           /\ token_tracker'.tokens_used =
                token_tracker.tokens_used + response'.body.tokens_consumed)
     /\ (ExplainStep /\ (IsFallback(response') \/ response'.status = 429) =>
           token_tracker' = token_tracker)]_vars

\* one request was counted and the next one was refused for budget
C30_Witness ==
  /\ handled = 2
  /\ token_tracker.requests_count = 1
  /\ response.status = 429
  /\ upstream = "none"

\* the level the API contract gives a score: high from 0.7, medium from 0.4
\* up to 0.7, low under 0.4
ContractLevels(score) ==
  (IF score >= 70 THEN {"High Risk"} ELSE {}) \cup
  (IF score >= 40 /\ score < 70 THEN {"Medium Risk"} ELSE {}) \cup
  (IF score < 40 THEN {"Low Risk"} ELSE {})

\* the level each value of the risk level select stands for
LevelOfOption(selected) ==
  CASE selected = "0.7" -> "High Risk"
    [] selected = "0.4" -> "Medium Risk"
    [] selected = "0" -> "Low Risk"

SendsExplain == Len(explainRuns') > Len(explainRuns)

\* C23: on the page with an Explain button, once explanation_generated is
\* true or an explanation is shown, no step sends another POST /explain.
C23_NoExplainOnceGenerated ==
  [][(/\ pageFile \in {"page.tsx", "part_008"}
      /\ \/ casePage.caseData.explanation_generated
         \/ casePage.explanation # NoExplanation)
       => ~SendsExplain]_vars

\* C26: when an explain run and a calculate run of part_008 were in flight
\* together and both succeeded, caseData holds both updates:
\* explanation_generated is true and risk_score is the calculated score.
C26_BothUpdatesKept ==
  race.state = "both" =>
    /\ casePage.caseData.explanation_generated
    /\ casePage.caseData.risk_score = race.risk_score

\* C27: on the pages with an Explain button, explaining is true exactly
\* while an explainCase request of the page is outstanding, both explain
\* buttons are disabled while it is true, and at most one explain request
\* is in flight.
C27_ExplainingWhileOutstanding ==
  pageFile \in {"page.tsx", "part_008"} =>
    /\ casePage.explaining <=> explainRuns # <<>>
    /\ Len(explainRuns) <= 1
    /\ casePage.explaining =>
         headerExplainDisabled(casePage) /\ promptExplainDisabled(casePage)

\* an explain request is outstanding next to a calculate request
C27_Witness ==
  /\ pageFile = "part_008"
  /\ casePage.explaining
  /\ Len(explainRuns) = 1
  /\ calculateRuns # <<>>
  /\ casePage.error = NoError

\* C28: handleAnalyzeRisk ends either with both requests succeeded, and
\* then riskAnalysis and caseData (risk_score, explanation_generated) are
\* set from them, or with a failure, and then riskAnalysis and caseData
\* keep their values and error is set; analyzingRisk is false at the end,
\* and no other step after the load changes riskAnalysis or caseData.
C28_AnalysisAllOrNothing ==
  [][(pageFile = "part_009" /\ fetchPc = "idle") =>
       /\ (casePage.analyzingRisk /\ ~casePage'.analyzingRisk) =>
            IF analyzeRun'.calc = "ok" /\ analyzeRun'.expl = "ok"
              THEN /\ casePage'.riskAnalysis =
                        [score |-> RiskScoreOf(RouteId, analyzeRun'.score),
                         explanation |-> ExplanationOf(RouteId)]
                   /\ casePage'.caseData =
                        [casePage.caseData EXCEPT
                           !.risk_score = analyzeRun'.score,
                           !.explanation_generated = TRUE]
              ELSE /\ casePage'.riskAnalysis = casePage.riskAnalysis
                   /\ casePage'.caseData = casePage.caseData
                   /\ casePage'.error # NoError
       /\ (\/ casePage'.riskAnalysis # casePage.riskAnalysis
           \/ casePage'.caseData # casePage.caseData) =>
            /\ casePage.analyzingRisk /\ ~casePage'.analyzingRisk
            /\ analyzeRun'.calc = "ok" /\ analyzeRun'.expl = "ok"
       /\ (analyzeRun.settled = "pending" /\ analyzeRun'.settled # "pending") =>
            ~casePage'.analyzingRisk]_vars

\* the score was calculated, the explanation failed, and the page kept the
\* state it had
C28_Witness ==
  /\ pageFile = "part_009"
  /\ analyzeRun.settled = "rejected"
  /\ analyzeRun.calc = "ok"
  /\ analyzeRun.expl = "failed"
  /\ ~casePage.analyzingRisk
  /\ casePage.error # NoError
  /\ casePage.riskAnalysis = NoAnalysis
  /\ ~casePage.caseData.explanation_generated

\* C29: every run of fetchCase ends, with loading false, whatever getCase,
\* getExplanation, getRiskScore and getRiskCategory do; at its end caseData
\* holds the case of the route id or error is not null.
C29_FetchCaseEnds ==
  /\ [][(casePage.loading /\ ~casePage'.loading) =>
          /\ fetchPc' = "idle"
          /\ \/ casePage'.caseData.id = RouteId
             \/ casePage'.error # NoError]_vars
  /\ [](pageFile # Unmounted => (fetchPc = "idle" <=> ~casePage.loading))
  /\ (casePage.loading ~> ~casePage.loading)

\* getCase failed, the run of part_008 went on to getRiskCategory and ended
C29_Witness ==
  /\ pageFile = "part_008"
  /\ fetchPc = "idle"
  /\ ~casePage.loading
  /\ casePage.caseData = NoCase
  /\ casePage.error = "Failed to fetch case"
  /\ casePage.riskCategory # NoCategory

\* the chunks of the sequence
Returned(list) == { list[i] : i \in 1..Len(list) }

\* C21: Delete removes the document and all its chunks: no chunk without
\* its document stays in the index, no Retrieve returns one, and after an
\* Ingest followed by the Delete of the same document every Retrieve gives
\* what it gave on the index before the Ingest.
C21_DeleteUndoesIngest ==
  /\ \A c \in chunks : \E d \in documents : d.id = c.document_id
  /\ \A query \in Queries, k \in 1..MaxK :
       /\ \A c \in Returned(TopK(chunks, query, k)) :
            \E d \in documents : d.id = c.document_id
       /\ roundTrip.state = "deleted" =>
            TopK(chunks, query, k) = TopK(roundTrip.before, query, k)

\* a document was ingested next to another one and deleted again
C21_Witness ==
  /\ roundTrip.state = "deleted"
  /\ roundTrip.before # {}
  /\ chunks = roundTrip.before
  /\ delPc = "refetch"

\* every chunk of document id: from its metadata, or from the Ingest in
\* progress
WholeDocument(id) ==
  IF \E d \in documents : d.id = id
    THEN LET d == CHOOSE d \in documents : d.id = id
         IN ChunksOf(id, [type |-> d.file_type, parts |-> d.chunk_count])
  ELSE IF building.op = "ingest" /\ building.id = id
    THEN ChunksOf(id, building.file)
  ELSE {}

\* C22: the index a Retrieve observes holds, for each document, all of its
\* chunks or none of them, also while an Ingest or a Delete is in progress.
C22_RetrieveSeesWholeDocuments ==
  [][retrieved' # retrieved =>
       \A id \in 1..MaxDocuments :
         LET seen == { c \in retrieved'.observed : c.document_id = id }
         IN seen = {} \/ seen = WholeDocument(id)]_vars

\* a Retrieve ran on the published index while an Ingest had staged a part
\* of its document
C22_Witness ==
  /\ building.op = "ingest"
  /\ building.copy # chunks
  /\ ~(ChunksOf(building.id, building.file) \subseteq building.copy)
  /\ retrieved.k > 0
  /\ retrieved.observed = chunks
  /\ chunks # {}

====
